---------------------------- MODULE Spec2Model ----------------------------
(***************************************************************************)
(* A model of feather.js' RawKey (src/key/RawKey.ts) and of the tri-format *)
(* message codec of MsgStoreCode (src/core/jax/msgs/MsgStoreCode.ts) and   *)
(* MsgUpdateClient (the second class of src/key/RawKey.ts).                *)
(*                                                                         *)
(* Three specifications share the variables:                               *)
(*   SpecKey   - one RawKey, its constructor, its three signing methods    *)
(*               and writes of its public privateKey field;                *)
(*   SpecSign  - one RawKey and interleaved sign() calls only;             *)
(*   SpecCodec - message objects and their Amino / Data / Proto / Any      *)
(*               conversions.                                              *)
(*                                                                         *)
(* Conventions.  A JavaScript string is a sequence of character codes, a   *)
(* Buffer / Uint8Array a sequence of bytes.  The JavaScript value          *)
(* `undefined` in a string position is the sentinel Undefined.  An         *)
(* optional boolean (isInjective, isClassic) is one of "undefined",        *)
(* "false", "true".  A thrown exception is a result record whose err       *)
(* field is not "none".                                                    *)
(***************************************************************************)
EXTENDS Integers, Sequences, FiniteSets, TLC

VARIABLES key, ctor, call,
          obj, objVia, wire, res

keyVars   == <<key, ctor, call>>
codecVars == <<obj, objVia, wire, res>>
vars      == <<key, ctor, call, obj, objVia, wire, res>>

(***************************************************************************)
(* Bounds of the model.                                                    *)
(***************************************************************************)
\* Secrets are the scalars 0..MaxSecret (a scalar stands for the 32-byte
\* buffer that holds it); MaxSecret >= CurveOrder so that zero and the
\* scalars past the curve order both occur.
MaxSecret == 6
\* Length of the opaque value of an Any-envelope received from outside.
MaxValueLen == 2

(***************************************************************************)
(* JavaScript values.                                                      *)
(***************************************************************************)
Undefined == <<-1>>

OptBool == {"undefined", "false", "true"}

\* JavaScript truthiness of an optional boolean.
Truthy(b) == b = "true"

RECURSIVE SeqsUpTo(_, _)
SeqsUpTo(S, n) ==
    IF n = 0 THEN {<<>>}
    ELSE LET shorter == SeqsUpTo(S, n - 1)
         IN  shorter \cup {Append(s, x) : s \in shorter, x \in S}

(***************************************************************************)
(*                               RawKey                                    *)
(***************************************************************************)
Secrets  == 0..MaxSecret
\* The payloads handed to the signing methods: the empty one and a byte.
Payloads == {<<>>, <<1>>}
\* The logical callers that hold the same key.
Callers  == {"A", "B"}

\* Order of the (toy) curve group: the valid private scalars are
\* 1..CurveOrder-1, as secp256k1.publicKeyCreate requires of secp256k1.
CurveOrder == 5

\* secp256k1.publicKeyCreate(privateKey, true): throws on a scalar that is
\* zero or not below the curve order, otherwise the compressed point d*G
\* (G = 3 in the additive group of integers mod CurveOrder).
publicKeyCreate(d) ==
    IF d \in 1..(CurveOrder - 1)
    THEN [err |-> "none", point |-> (3 * d) % CurveOrder]
    ELSE [err |-> "Error: private key invalid", point |-> 0]

\* Buffer.from(publicKey).toString('base64')
toBase64(point) == [b64 |-> point]

SimplePublicKey(k)  == [variant |-> "SimplePublicKey", key |-> k]
InjectivePubKey(k)  == [variant |-> "InjectivePubKey", key |-> k]
NoPublicKey         == [variant |-> "none", key |-> [b64 |-> 0]]

NoKey == [alive |-> FALSE, privateKey |-> 0, publicKey |-> NoPublicKey,
          isInjective |-> "undefined"]

\* (A mutant of the constructor: the failure of publicKeyCreate is caught
\* and a key without a usable public key is built all the same.)
RawKey_constructorSwallows(privateKey, isInjective) ==
    LET publicKey == publicKeyCreate(privateKey)
    IN  [err |-> "none",
         this |-> [alive       |-> TRUE,
                   privateKey  |-> privateKey,
                   publicKey   |-> IF Truthy(isInjective)
                                   THEN InjectivePubKey(toBase64(publicKey.point))
                                   ELSE SimplePublicKey(toBase64(publicKey.point)),
                   isInjective |-> isInjective]]

\* new RawKey(privateKey, isInjective): the object the constructor builds,
\* or the exception publicKeyCreate throws before super() runs.
RawKey_constructor(privateKey, isInjective) ==
    LET publicKey == publicKeyCreate(privateKey)
    IN  IF publicKey.err # "none"
        THEN [err |-> publicKey.err, this |-> NoKey]
        ELSE [err |-> "none",
              this |-> [alive       |-> TRUE,
                        privateKey  |-> privateKey,
                        publicKey   |-> IF Truthy(isInjective)
                                        THEN InjectivePubKey(toBase64(publicKey.point))
                                        ELSE SimplePublicKey(toBase64(publicKey.point)),
                        isInjective |-> isInjective]]

\* The two digests, as terms over their input: distinct algorithms never
\* give the same digest, and each is injective in the payload.
SHA256_hash(payload) == [alg |-> "sha256", of |-> payload]
keccak256(payload)   == [alg |-> "keccak256", of |-> payload]

\* secp256k1.ecdsaSign(hash, privateKey): deterministic (RFC 6979 nonce), a
\* term over the digest and the scalar; throws on an invalid scalar.
secp256k1_ecdsaSign(hash, d) ==
    IF d \in 1..(CurveOrder - 1)
    THEN [err |-> "none",
          signature |-> [digest |-> hash, d |-> d],
          recid |-> (d + Len(hash.of)) % 2]
    ELSE [err |-> "Error: private key invalid",
          signature |-> [digest |-> hash, d |-> 0],
          recid |-> 0]

ecdsaSign(this, payload) ==
    secp256k1_ecdsaSign(SHA256_hash(payload), this.privateKey)

etherSign(this, payload) ==
    secp256k1_ecdsaSign(keccak256(payload), this.privateKey)

\* The value the promise returned by sign(payload) settles with:
\* Buffer.from(signature), the recovery id dropped; a throw inside the
\* async body rejects the promise.
\* (A mutant of sign: the family flag is not consulted.)
signAlwaysSha256(this, payload) ==
    LET r == ecdsaSign(this, payload)
    IN  [err |-> r.err, signature |-> r.signature]

sign(this, payload) ==
    LET r == IF Truthy(this.isInjective)
             THEN etherSign(this, payload)
             ELSE ecdsaSign(this, payload)
    IN  [err |-> r.err, signature |-> r.signature]

NoCall == [pc |-> "idle", method |-> "none", payload |-> <<>>, err |-> "none",
           signature |-> [digest |-> SHA256_hash(<<>>), d |-> 0]]
NoCtor == [called |-> FALSE, privateKey |-> 0, isInjective |-> "undefined",
           err |-> "none"]

InitKey ==
    /\ key = NoKey
    /\ ctor = NoCtor
    /\ call = [c \in Callers |-> NoCall]

\* new RawKey(privateKey, isInjective).  One key object is followed; a
\* failed construction leaves none, and the caller may try again.
Construct(privateKey, isInjective) ==
    /\ ~key.alive
    /\ LET r == RawKey_constructor(privateKey, isInjective)
       IN  /\ key' = r.this
           /\ ctor' = [called |-> TRUE, privateKey |-> privateKey,
                       isInjective |-> isInjective, err |-> r.err]
    /\ UNCHANGED <<call>>
    /\ UNCHANGED codecVars

\* A mutant of CallSign: the signature is kept in one buffer shared by all
\* the promises that are still pending.
CallSignSharedBuffer(c, payload) ==
    /\ key.alive
    /\ call[c].pc # "pending"
    /\ LET r == sign(key, payload)
       IN  call' = [d \in Callers |->
                     IF d = c
                     THEN [pc |-> "pending", method |-> "sign", payload |-> payload,
                           err |-> r.err, signature |-> r.signature]
                     ELSE IF call[d].pc = "pending"
                     THEN [call[d] EXCEPT !.err = r.err, !.signature = r.signature]
                     ELSE call[d]]
    /\ UNCHANGED <<key, ctor>>
    /\ UNCHANGED codecVars

\* Caller c calls key.sign(payload): the async body runs to completion at
\* the call (it holds no await) and settles the promise it returns.
CallSign(c, payload) ==
    /\ key.alive
    /\ call[c].pc # "pending"
    /\ LET r == sign(key, payload)
       IN  call' = [call EXCEPT ![c] =
                     [pc |-> "pending", method |-> "sign", payload |-> payload,
                      err |-> r.err, signature |-> r.signature]]
    /\ UNCHANGED <<key, ctor>>
    /\ UNCHANGED codecVars

\* The await of caller c resumes with the settled promise.
ResolveSign(c) ==
    /\ call[c].pc = "pending"
    /\ call' = [call EXCEPT ![c].pc = IF call[c].err = "none" THEN "resolved"
                                      ELSE "rejected"]
    /\ UNCHANGED <<key, ctor>>
    /\ UNCHANGED codecVars

\* Direct synchronous calls of the two public signing methods.
CallEcdsaSign(c, payload) ==
    /\ key.alive
    /\ call[c].pc # "pending"
    /\ LET r == ecdsaSign(key, payload)
       IN  call' = [call EXCEPT ![c] =
                     [pc |-> IF r.err = "none" THEN "returned" ELSE "threw",
                      method |-> "ecdsaSign", payload |-> payload,
                      err |-> r.err, signature |-> r.signature]]
    /\ UNCHANGED <<key, ctor>>
    /\ UNCHANGED codecVars

CallEtherSign(c, payload) ==
    /\ key.alive
    /\ call[c].pc # "pending"
    /\ LET r == etherSign(key, payload)
       IN  call' = [call EXCEPT ![c] =
                     [pc |-> IF r.err = "none" THEN "returned" ELSE "threw",
                      method |-> "etherSign", payload |-> payload,
                      err |-> r.err, signature |-> r.signature]]
    /\ UNCHANGED <<key, ctor>>
    /\ UNCHANGED codecVars

\* key.privateKey = b: the field is declared public and not readonly.  (The
\* constructor also stores the caller's Buffer itself, not a copy, so a
\* write into that Buffer has the same effect.)
WritePrivateKey(b) ==
    /\ key.alive
    /\ key' = [key EXCEPT !.privateKey = b]
    /\ UNCHANGED <<ctor, call>>
    /\ UNCHANGED codecVars

NextSign ==
    \/ \E d \in Secrets, inj \in OptBool : Construct(d, inj)
    \/ \E c \in Callers, p \in Payloads : CallSign(c, p)
    \/ \E c \in Callers : ResolveSign(c)

NextKey ==
    \/ \E d \in Secrets, inj \in OptBool : Construct(d, inj)
    \/ \E c \in Callers, p \in Payloads : CallSign(c, p)
    \/ \E c \in Callers : ResolveSign(c)
    \/ \E c \in Callers, p \in Payloads : CallEcdsaSign(c, p)
    \/ \E c \in Callers, p \in Payloads : CallEtherSign(c, p)
    \/ \E b \in Secrets : WritePrivateKey(b)

(***************************************************************************)
(*                      Protocol-buffer wire format                        *)
(*                                                                         *)
(* The generated codecs of @terra-money/terra.proto over protobufjs'       *)
(* Writer and Reader.  Every byte of the model is below 128, so a varint   *)
(* is one byte.  An offset is the number of bytes already read.            *)
(***************************************************************************)
EmptyObject == [k \in {} |-> 0]

\* o.k of JavaScript: undefined when the object has no such property.
Get(o, k) == IF k \in DOMAIN o THEN o[k] ELSE Undefined

\* x ?? ""
OrEmpty(x) == IF x = Undefined THEN <<>> ELSE x

\* if (s !== "") writer.uint32(tag).string(s)   (tag = field << 3 | 2);
\* the same for bytes with  value.length !== 0.
WriteLengthDelimited(field, s) ==
    IF s = <<>> THEN <<>> ELSE <<8 * field + 2, Len(s)>> \o s

ReadFail(kind) == [err |-> kind, val |-> <<>>, next |-> 0]

\* reader.uint32()
Reader_uint32(b, off) ==
    IF off >= Len(b) THEN ReadFail("RangeError: index out of range")
    ELSE [err |-> "none", val |-> b[off + 1], next |-> off + 1]

\* reader.bytes() and, on the bytes it returns, reader.string()
Reader_bytes(b, off) ==
    LET n == Reader_uint32(b, off)
    IN  IF n.err # "none" THEN ReadFail(n.err)
        ELSE IF n.next + n.val > Len(b) THEN ReadFail("RangeError: index out of range")
        ELSE [err |-> "none", val |-> SubSeq(b, n.next + 1, n.next + n.val),
              next |-> n.next + n.val]

\* reader.skip(n)
Reader_skip(b, off, n) ==
    IF off + n > Len(b) THEN ReadFail("RangeError: index out of range")
    ELSE [err |-> "none", val |-> <<>>, next |-> off + n]

\* reader.skipType(wireType)
RECURSIVE Reader_skipType(_, _, _)
RECURSIVE Reader_skipGroup(_, _)
Reader_skipType(b, off, wireType) ==
    CASE wireType = 0 -> Reader_skip(b, off, 1)
      [] wireType = 1 -> Reader_skip(b, off, 8)
      [] wireType = 2 -> LET n == Reader_uint32(b, off)
                         IN  IF n.err # "none" THEN ReadFail(n.err)
                             ELSE Reader_skip(b, n.next, n.val)
      [] wireType = 3 -> Reader_skipGroup(b, off)
      [] wireType = 5 -> Reader_skip(b, off, 4)
      [] OTHER        -> ReadFail("Error: invalid wire type")

Reader_skipGroup(b, off) ==
    LET t == Reader_uint32(b, off)
    IN  IF t.err # "none" THEN ReadFail(t.err)
        ELSE IF t.val % 8 = 4 THEN [err |-> "none", val |-> <<>>, next |-> t.next]
        ELSE LET r == Reader_skipType(b, t.next, t.val % 8)
             IN  IF r.err # "none" THEN ReadFail(r.err)
                 ELSE Reader_skipGroup(b, r.next)

(***************************************************************************)
(* google.protobuf.Any, as the clientMessage of MsgUpdateClient holds it:  *)
(* present is FALSE for the JavaScript value undefined.                    *)
(***************************************************************************)
AnyAbsent == [present |-> FALSE, typeUrl |-> <<>>, value |-> <<>>]
AnyOf(typeUrl, value) == [present |-> TRUE, typeUrl |-> typeUrl, value |-> value]

\* Any.encode(message)
Any_encode(a) ==
    WriteLengthDelimited(1, a.typeUrl) \o WriteLengthDelimited(2, a.value)

\* Any.decode(reader, length): the loop  while (reader.pos < end)
RECURSIVE Any_decodeLoop(_, _, _, _)
Any_decodeLoop(b, off, end, m) ==
    IF off >= end THEN [err |-> "none", val |-> m, next |-> off]
    ELSE LET tag == Reader_uint32(b, off)
         IN  IF tag.err # "none" THEN [err |-> tag.err, val |-> m, next |-> 0]
             ELSE IF tag.val \div 8 \in {1, 2}
             THEN LET f == Reader_bytes(b, tag.next)
                  IN  IF f.err # "none" THEN [err |-> f.err, val |-> m, next |-> 0]
                      ELSE Any_decodeLoop(b, f.next, end,
                               IF tag.val \div 8 = 1
                               THEN [m EXCEPT !.typeUrl = f.val]
                               ELSE [m EXCEPT !.value = f.val])
             ELSE LET k == Reader_skipType(b, tag.next, tag.val % 8)
                  IN  IF k.err # "none" THEN [err |-> k.err, val |-> m, next |-> 0]
                      ELSE Any_decodeLoop(b, k.next, end, m)

(***************************************************************************)
(*                            MsgStoreCode                                 *)
(***************************************************************************)
NoObj == [variant |-> "none"]

\* new MsgStoreCode(creator, admin, code, params)
MsgStoreCode(creator, admin, code, params) ==
    [variant |-> "MsgStoreCode", creator |-> creator, admin |-> admin,
     code |-> code, params |-> params]

Ok(v)    == [err |-> "none", val |-> v]
Throw(e) == [err |-> e, val |-> NoObj]

\* MsgStoreCode_pb.fromPartial(object)
MsgStoreCode_pb_fromPartial(o) ==
    [creator |-> OrEmpty(Get(o, "creator")), admin |-> OrEmpty(Get(o, "admin")),
     code |-> OrEmpty(Get(o, "code")), params |-> OrEmpty(Get(o, "params"))]

\* MsgStoreCode_pb.encode(message).finish()
MsgStoreCode_pb_encode(p) ==
    WriteLengthDelimited(1, p.creator) \o WriteLengthDelimited(2, p.admin)
      \o WriteLengthDelimited(3, p.code) \o WriteLengthDelimited(4, p.params)

\* MsgStoreCode_pb.decode(bytes)
RECURSIVE MsgStoreCode_pb_decodeLoop(_, _, _)
MsgStoreCode_pb_decodeLoop(b, off, m) ==
    IF off >= Len(b) THEN Ok(m)
    ELSE LET tag == Reader_uint32(b, off)
         IN  IF tag.val \div 8 \in 1..4
             THEN LET f == Reader_bytes(b, tag.next)
                  IN  IF f.err # "none" THEN Throw(f.err)
                      ELSE MsgStoreCode_pb_decodeLoop(b, f.next,
                               CASE tag.val \div 8 = 1 -> [m EXCEPT !.creator = f.val]
                                 [] tag.val \div 8 = 2 -> [m EXCEPT !.admin = f.val]
                                 [] tag.val \div 8 = 3 -> [m EXCEPT !.code = f.val]
                                 [] OTHER              -> [m EXCEPT !.params = f.val])
             ELSE LET k == Reader_skipType(b, tag.next, tag.val % 8)
                  IN  IF k.err # "none" THEN Throw(k.err)
                      ELSE MsgStoreCode_pb_decodeLoop(b, k.next, m)

MsgStoreCode_pb_decode(b) ==
    MsgStoreCode_pb_decodeLoop(b, 0, MsgStoreCode_pb_fromPartial(EmptyObject))

TypeUrlStoreCode == "/jax.MsgStoreCode"
AminoTypeStoreCode == "jax/MsgStoreCode"

\* MsgStoreCode.fromAmino(data, _): destructuring data.value throws a
\* TypeError when data has no value object.
MsgStoreCode_fromAmino(data, isClassic) ==
    IF "value" \notin DOMAIN data
    THEN Throw("TypeError: cannot destructure undefined")
    ELSE Ok(MsgStoreCode(Get(data.value, "creator"), Get(data.value, "admin"),
                         Get(data.value, "code"), Get(data.value, "params")))

\* m.toAmino(_)
MsgStoreCode_toAmino(m, isClassic) ==
    Ok([type |-> AminoTypeStoreCode,
        value |-> [creator |-> m.creator, admin |-> m.admin,
                   code |-> m.code, params |-> m.params]])

\* MsgStoreCode.fromProto(proto, _)
MsgStoreCode_fromProto(p, isClassic) ==
    Ok(MsgStoreCode(Get(p, "creator"), Get(p, "admin"), Get(p, "code"),
                    Get(p, "params")))

\* m.toProto(_)
MsgStoreCode_toProto(m, isClassic) ==
    Ok(MsgStoreCode_pb_fromPartial(
          [creator |-> m.creator, admin |-> m.admin,
           code |-> m.code, params |-> m.params]))

\* m.packAny(isClassic)
MsgStoreCode_packAny(m, isClassic) ==
    Ok([typeUrl |-> TypeUrlStoreCode,
        value |-> MsgStoreCode_pb_encode(MsgStoreCode_toProto(m, isClassic).val)])

\* MsgStoreCode.unpackAny(msgAny, isClassic)
MsgStoreCode_unpackAny(msgAny, isClassic) ==
    LET p == MsgStoreCode_pb_decode(msgAny.value)
    IN  IF p.err # "none" THEN Throw(p.err)
        ELSE MsgStoreCode_fromProto(p.val, isClassic)

\* MsgStoreCode.fromData(data, _)
MsgStoreCode_fromData(data, isClassic) ==
    Ok(MsgStoreCode(Get(data, "creator"), Get(data, "admin"), Get(data, "code"),
                    Get(data, "params")))

\* (A mutant of toData: with isClassic set, an older generation of the
\* shape, which names the deployer "sender", is emitted.)
MsgStoreCode_toDataLegacyWhenClassic(m, isClassic) ==
    IF Truthy(isClassic)
    THEN Ok(("@type" :> TypeUrlStoreCode)
              @@ [sender |-> m.creator, admin |-> m.admin,
                  code |-> m.code, params |-> m.params])
    ELSE Ok(("@type" :> TypeUrlStoreCode)
              @@ [creator |-> m.creator, admin |-> m.admin,
                  code |-> m.code, params |-> m.params])

\* m.toData(_)
MsgStoreCode_toData(m, isClassic) ==
    Ok(("@type" :> TypeUrlStoreCode)
         @@ [creator |-> m.creator, admin |-> m.admin,
             code |-> m.code, params |-> m.params])

(***************************************************************************)
(*                           MsgUpdateClient                               *)
(***************************************************************************)
\* new MsgUpdateClient(client_id, clientMessage, signer)
MsgUpdateClient(client_id, clientMessage, signer) ==
    [variant |-> "MsgUpdateClient", client_id |-> client_id,
     clientMessage |-> clientMessage, signer |-> signer]

\* o.clientMessage, undefined when the object has no such property
GetAny(o, k) == IF k \in DOMAIN o THEN o[k] ELSE AnyAbsent

\* MsgUpdateClient_pb.fromPartial(object); Any.fromPartial on a present
\* clientMessage copies its two fields.
MsgUpdateClient_pb_fromPartial(o) ==
    [clientId |-> OrEmpty(Get(o, "clientId")),
     clientMessage |-> LET a == GetAny(o, "clientMessage")
                       IN  IF a.present THEN AnyOf(a.typeUrl, a.value) ELSE AnyAbsent,
     signer |-> OrEmpty(Get(o, "signer"))]

\* MsgUpdateClient_pb.encode(message).finish()
MsgUpdateClient_pb_encode(p) ==
    WriteLengthDelimited(1, p.clientId)
      \o (IF p.clientMessage.present
          THEN <<18, Len(Any_encode(p.clientMessage))>> \o Any_encode(p.clientMessage)
          ELSE <<>>)
      \o WriteLengthDelimited(3, p.signer)

\* MsgUpdateClient_pb.decode(bytes)
RECURSIVE MsgUpdateClient_pb_decodeLoop(_, _, _)
MsgUpdateClient_pb_decodeLoop(b, off, m) ==
    IF off >= Len(b) THEN Ok(m)
    ELSE LET tag == Reader_uint32(b, off)
         IN  CASE tag.val \div 8 \in {1, 3} ->
                    LET f == Reader_bytes(b, tag.next)
                    IN  IF f.err # "none" THEN Throw(f.err)
                        ELSE MsgUpdateClient_pb_decodeLoop(b, f.next,
                                 IF tag.val \div 8 = 1
                                 THEN [m EXCEPT !.clientId = f.val]
                                 ELSE [m EXCEPT !.signer = f.val])
               [] tag.val \div 8 = 2 ->
                    LET n == Reader_uint32(b, tag.next)
                    IN  IF n.err # "none" THEN Throw(n.err)
                        ELSE LET a == Any_decodeLoop(b, n.next, n.next + n.val,
                                                     AnyOf(<<>>, <<>>))
                             IN  IF a.err # "none" THEN Throw(a.err)
                                 ELSE MsgUpdateClient_pb_decodeLoop(b, a.next,
                                          [m EXCEPT !.clientMessage = a.val])
               [] OTHER ->
                    LET k == Reader_skipType(b, tag.next, tag.val % 8)
                    IN  IF k.err # "none" THEN Throw(k.err)
                        ELSE MsgUpdateClient_pb_decodeLoop(b, k.next, m)

MsgUpdateClient_pb_decode(b) ==
    MsgUpdateClient_pb_decodeLoop(b, 0, MsgUpdateClient_pb_fromPartial(EmptyObject))

TypeUrlUpdateClient == "/ibc.core.client.v1.MsgUpdateClient"

\* MsgUpdateClient.fromAmino(_, isClassic)
MsgUpdateClient_fromAmino(data, isClassic) == Throw("Error: Amino not supported")

\* (A mutant of toAmino: an Amino encoding is made up instead of throwing.)
MsgUpdateClient_toAminoInvented(m, isClassic) ==
    Ok([type |-> "cosmos-sdk/MsgUpdateClient",
        value |-> [client_id |-> m.client_id, signer |-> m.signer]])

\* m.toAmino()
MsgUpdateClient_toAmino(m, isClassic) == Throw("Error: Amino not supported")

\* MsgUpdateClient.fromData(data, _)
MsgUpdateClient_fromData(data, isClassic) ==
    Ok(MsgUpdateClient(Get(data, "client_id"), GetAny(data, "clientMessage"),
                       Get(data, "signer")))

\* m.toData(_)
MsgUpdateClient_toData(m, isClassic) ==
    Ok(("@type" :> TypeUrlUpdateClient)
         @@ [client_id |-> m.client_id, clientMessage |-> m.clientMessage,
             signer |-> m.signer])

\* MsgUpdateClient.fromProto(proto, _)
MsgUpdateClient_fromProto(p, isClassic) ==
    Ok(MsgUpdateClient(Get(p, "clientId"), GetAny(p, "clientMessage"),
                       Get(p, "signer")))

\* m.toProto(_)
MsgUpdateClient_toProto(m, isClassic) ==
    Ok(MsgUpdateClient_pb_fromPartial(
          [clientId |-> m.client_id, clientMessage |-> m.clientMessage,
           signer |-> m.signer]))

\* m.packAny(_)
MsgUpdateClient_packAny(m, isClassic) ==
    Ok([typeUrl |-> TypeUrlUpdateClient,
        value |-> MsgUpdateClient_pb_encode(MsgUpdateClient_toProto(m, "undefined").val)])

\* MsgUpdateClient.unpackAny(msgAny, _)
MsgUpdateClient_unpackAny(msgAny, isClassic) ==
    LET p == MsgUpdateClient_pb_decode(msgAny.value)
    IN  IF p.err # "none" THEN Throw(p.err)
        ELSE MsgUpdateClient_fromProto(p.val, "undefined")

(***************************************************************************)
(*                     The codec as a state machine                        *)
(*                                                                         *)
(* obj    the message object in hand (NoObj before the first one);         *)
(* objVia the operation that built it;                                     *)
(* wire   the serialized form last produced from an object (of) or last    *)
(*        received from outside (by = "received"), and its kind;           *)
(* res    the last operation: its name, the class it was called on and     *)
(*        the exception it threw ("none" when it returned).                *)
(*                                                                         *)
(* One message is followed at a time: constructing a new one starts over   *)
(* with no wire form, receiving a payload starts over with no object.  (No *)
(* serializer reads the wire form and no deserializer reads the object in  *)
(* hand.)                                                                  *)
(***************************************************************************)
Variants == {"MsgStoreCode", "MsgUpdateClient"}

\* Field values a caller constructs messages from.
Str == {<<>>, <<97>>}
\* A property of a received JSON payload: a string, or absent.
StrOrAbsent == {<<97>>, Undefined}
\* The packed payloads a MsgUpdateClient is built around ("/t" is <<47, 116>>).
InnerAnys == {AnyAbsent, AnyOf(<<>>, <<>>), AnyOf(<<47, 116>>, <<1>>)}

\* k: v as a one-property object, no property when v is absent.
Prop(k, v) == IF v = Undefined THEN EmptyObject ELSE k :> v
\* The same for a type discriminator, "absent" when the payload has none.
Tag(k, t) == IF t = "absent" THEN EmptyObject ELSE k :> t

\* Data-shape payloads the REST transport may supply.
ReceivedData ==
    {Tag("@type", t) @@ Prop("creator", c) @@ Prop("admin", a)
        @@ Prop("code", co) @@ Prop("params", p) :
        t \in {"absent", TypeUrlStoreCode, TypeUrlUpdateClient},
        c \in StrOrAbsent, a \in StrOrAbsent, co \in StrOrAbsent, p \in StrOrAbsent}
    \cup
    {("@type" :> TypeUrlUpdateClient) @@ Prop("client_id", i)
        @@ (IF m.present THEN "clientMessage" :> m ELSE EmptyObject)
        @@ Prop("signer", sg) :
        i \in StrOrAbsent, m \in InnerAnys, sg \in Str}

\* Amino-shape payloads the REST transport may supply.
ReceivedAmino ==
    {Tag("type", t) @@ ("value" :> (Prop("creator", c) @@ Prop("admin", a)
                                       @@ Prop("code", co) @@ Prop("params", p))) :
        t \in {"absent", AminoTypeStoreCode, "other/Msg"},
        c \in StrOrAbsent, a \in StrOrAbsent, co \in StrOrAbsent, p \in StrOrAbsent}
    \cup {Tag("type", t) : t \in {"absent", AminoTypeStoreCode, "other/Msg"}}

\* Bytes an envelope received from outside may hold: the tags of fields 1
\* and 2 (10, 18), a zero (field 0 as a varint, or the length zero) and 97
\* (a 64-bit field 12, or the character "a").
ValueBytes == {0, 10, 18, 97}

ReceivedAny ==
    {[typeUrl |-> t, value |-> v] :
        t \in {TypeUrlStoreCode, TypeUrlUpdateClient, "/other.Msg"},
        v \in SeqsUpTo(ValueBytes, MaxValueLen)}

NoWire == [kind |-> "none", by |-> "none", of |-> NoObj, val |-> <<>>]
NoRes  == [op |-> "none", variant |-> "none", err |-> "none"]

Received(kind, payload) ==
    [kind |-> kind, by |-> "received", of |-> NoObj, val |-> payload]

InitCodec ==
    /\ obj = NoObj
    /\ objVia = "none"
    /\ wire = NoWire
    /\ res = NoRes

\* new MsgStoreCode(...) / new MsgUpdateClient(...)
NewStoreCode(creator, admin, code, params) ==
    /\ obj' = MsgStoreCode(creator, admin, code, params)
    /\ objVia' = "new"
    /\ res' = [op |-> "new", variant |-> "MsgStoreCode", err |-> "none"]
    /\ wire' = NoWire
    /\ UNCHANGED keyVars

NewUpdateClient(client_id, clientMessage, signer) ==
    /\ obj' = MsgUpdateClient(client_id, clientMessage, signer)
    /\ objVia' = "new"
    /\ res' = [op |-> "new", variant |-> "MsgUpdateClient", err |-> "none"]
    /\ wire' = NoWire
    /\ UNCHANGED keyVars

\* A serializing method of the object in hand: what it returns becomes the
\* wire form; when it throws, nothing but res changes.
Serialize(op, kind, r) ==
    /\ obj' = obj
    /\ objVia' = objVia
    /\ wire' = IF r.err = "none"
               THEN [kind |-> kind, by |-> op, of |-> obj, val |-> r.val]
               ELSE wire
    /\ res' = [op |-> op, variant |-> obj.variant, err |-> r.err]
    /\ UNCHANGED keyVars

\* A static deserializing method of class variant on the wire form: what
\* it returns becomes the object in hand; when it throws, the object in
\* hand stays.
Deserialize(op, variant, r) ==
    /\ obj' = IF r.err = "none" THEN r.val ELSE obj
    /\ objVia' = IF r.err = "none" THEN op ELSE objVia
    /\ wire' = wire
    /\ res' = [op |-> op, variant |-> variant, err |-> r.err]
    /\ UNCHANGED keyVars

ToAmino(isClassic) ==
    /\ obj.variant \in Variants
    /\ Serialize("toAmino", "amino",
                 IF obj.variant = "MsgStoreCode"
                 THEN MsgStoreCode_toAmino(obj, isClassic)
                 ELSE MsgUpdateClient_toAmino(obj, isClassic))

ToData(isClassic) ==
    /\ obj.variant \in Variants
    /\ Serialize("toData", "data",
                 IF obj.variant = "MsgStoreCode"
                 THEN MsgStoreCode_toData(obj, isClassic)
                 ELSE MsgUpdateClient_toData(obj, isClassic))

ToProto(isClassic) ==
    /\ obj.variant \in Variants
    /\ Serialize("toProto", "proto",
                 IF obj.variant = "MsgStoreCode"
                 THEN MsgStoreCode_toProto(obj, isClassic)
                 ELSE MsgUpdateClient_toProto(obj, isClassic))

PackAny(isClassic) ==
    /\ obj.variant \in Variants
    /\ Serialize("packAny", "any",
                 IF obj.variant = "MsgStoreCode"
                 THEN MsgStoreCode_packAny(obj, isClassic)
                 ELSE MsgUpdateClient_packAny(obj, isClassic))

\* The transport hands over a payload: the model starts over with it.
Receive(kind, payload) ==
    /\ obj' = NoObj
    /\ objVia' = "none"
    /\ wire' = Received(kind, payload)
    /\ res' = [op |-> "receive", variant |-> "none", err |-> "none"]
    /\ UNCHANGED keyVars

ReceiveAmino(payload) == Receive("amino", payload)
ReceiveData(payload)  == Receive("data", payload)
ReceiveAny(payload)   == Receive("any", payload)

FromAmino(variant, isClassic) ==
    /\ wire.kind = "amino"
    /\ Deserialize("fromAmino", variant,
                   IF variant = "MsgStoreCode"
                   THEN MsgStoreCode_fromAmino(wire.val, isClassic)
                   ELSE MsgUpdateClient_fromAmino(wire.val, isClassic))

FromData(variant, isClassic) ==
    /\ wire.kind = "data"
    /\ Deserialize("fromData", variant,
                   IF variant = "MsgStoreCode"
                   THEN MsgStoreCode_fromData(wire.val, isClassic)
                   ELSE MsgUpdateClient_fromData(wire.val, isClassic))

FromProto(variant, isClassic) ==
    /\ wire.kind = "proto"
    /\ Deserialize("fromProto", variant,
                   IF variant = "MsgStoreCode"
                   THEN MsgStoreCode_fromProto(wire.val, isClassic)
                   ELSE MsgUpdateClient_fromProto(wire.val, isClassic))

UnpackAny(variant, isClassic) ==
    /\ wire.kind = "any"
    /\ Deserialize("unpackAny", variant,
                   IF variant = "MsgStoreCode"
                   THEN MsgStoreCode_unpackAny(wire.val, isClassic)
                   ELSE MsgUpdateClient_unpackAny(wire.val, isClassic))

NextCodec ==
    \/ \E c \in Str, a \in Str, co \in Str, p \in Str : NewStoreCode(c, a, co, p)
    \/ \E i \in Str, m \in InnerAnys, sg \in Str : NewUpdateClient(i, m, sg)
    \/ \E p \in ReceivedAmino : ReceiveAmino(p)
    \/ \E p \in ReceivedData : ReceiveData(p)
    \/ \E p \in ReceivedAny : ReceiveAny(p)
    \/ \E ic \in OptBool : ToAmino(ic)
    \/ \E ic \in OptBool : ToData(ic)
    \/ \E ic \in OptBool : ToProto(ic)
    \/ \E ic \in OptBool : PackAny(ic)
    \/ \E v \in Variants, ic \in OptBool : FromAmino(v, ic)
    \/ \E v \in Variants, ic \in OptBool : FromData(v, ic)
    \/ \E v \in Variants, ic \in OptBool : FromProto(v, ic)
    \/ \E v \in Variants, ic \in OptBool : UnpackAny(v, ic)

Init == InitKey /\ InitCodec

SpecKey   == Init /\ [][NextKey]_vars
SpecSign  == Init /\ [][NextSign]_vars
SpecCodec == Init /\ [][NextCodec]_vars

(***************************************************************************)
(*                         Claims about RawKey                             *)
(***************************************************************************)
ValidScalar(d) == d > 0 /\ d < CurveOrder

\* The key as its constructor built it from the recorded arguments.
AsConstructed == RawKey_constructor(ctor.privateKey, ctor.isInjective).this

\* C2: in every reachable state of a constructed key, publicKey is the
\* compressed public key derived from the secret the key signs with.
C2_PublicKeyMatchesSecret ==
    key.alive =>
        /\ publicKeyCreate(key.privateKey).err = "none"
        /\ key.publicKey.key = toBase64(publicKeyCreate(key.privateKey).point)

\* C3: the digest every sign(payload) signs is the one of the chain family
\* chosen at construction, and the public-key variant is that family's,
\* for the whole life of the key (writes of privateKey included).
C3_SchemeIsFamilyOfConstruction ==
    key.alive =>
        /\ key.publicKey.variant =
              (IF Truthy(ctor.isInjective) THEN "InjectivePubKey" ELSE "SimplePublicKey")
        /\ \A c \in Callers :
              (call[c].method = "sign" /\ call[c].err = "none") =>
                  call[c].signature.digest =
                      (IF Truthy(ctor.isInjective)
                       THEN keccak256(call[c].payload)
                       ELSE SHA256_hash(call[c].payload))

C3_Witness ==
    /\ Truthy(ctor.isInjective)
    /\ key.privateKey # ctor.privateKey
    /\ \E c, d \in Callers :
          /\ call[c].method = "sign" /\ call[c].pc = "resolved"
          /\ call[d].method = "sign" /\ call[d].pc = "resolved"
          /\ call[c].signature.d # call[d].signature.d

\* C4: a construction from a scalar that is zero or not below the curve
\* order fails and leaves no key object and nothing else changed; a key
\* that exists was built from a valid scalar.
C4_InvalidSecretYieldsNoKey ==
    /\ (ctor.called /\ ~ValidScalar(ctor.privateKey)) =>
          /\ ctor.err # "none"
          /\ key = NoKey
          /\ call = [c \in Callers |-> NoCall]
    /\ key.alive => (ctor.err = "none" /\ ValidScalar(ctor.privateKey))

C4_Witness ==
    /\ ctor.called
    /\ ctor.privateKey >= CurveOrder
    /\ ctor.err # "none"

\* C5: under any interleaving of sign calls of several callers, a call
\* settles with the signature it yields alone on the key as constructed,
\* equal payloads give equal signatures, and the key is left unchanged.
C5_SignIsPure ==
    key.alive =>
        /\ key = AsConstructed
        /\ \A c \in Callers :
              call[c].pc \in {"pending", "resolved", "rejected"} =>
                  /\ call[c].err = sign(AsConstructed, call[c].payload).err
                  /\ call[c].signature = sign(AsConstructed, call[c].payload).signature
        /\ \A c, d \in Callers :
              (call[c].pc = "resolved" /\ call[d].pc = "resolved"
                 /\ call[c].payload = call[d].payload) =>
                  call[c].signature = call[d].signature

C5_Witness ==
    \E c, d \in Callers :
        /\ c # d
        /\ call[c].pc = "resolved" /\ call[d].pc = "pending"
        /\ call[c].payload = call[d].payload

(***************************************************************************)
(*                        Claims about the codec                           *)
(***************************************************************************)
TypeUrlOf(variant) ==
    IF variant = "MsgStoreCode" THEN TypeUrlStoreCode ELSE TypeUrlUpdateClient

StoreCodeFields == {"creator", "admin", "code", "params"}

\* Every field of the message is a string (none is undefined).
WellTyped(m) ==
    CASE m.variant = "MsgStoreCode" ->
           \A f \in StoreCodeFields : m[f] # Undefined
      [] m.variant = "MsgUpdateClient" ->
           m.client_id # Undefined /\ m.signer # Undefined
      [] OTHER -> FALSE

\* The source defines no error classes of its own.  A claim that names an
\* error kind is read as: the operation throws (whatever it throws) and so
\* returns nothing.
Rejected(r) == r.err # "none"

\* C1: unpackAny of a class on an envelope whose typeUrl is another
\* variant's is rejected (TypeMismatchError) and returns no object,
\* whatever the value holds.
C1_WrongDecoderRaisesTypeMismatch ==
    (res.op = "unpackAny" /\ wire.val.typeUrl # TypeUrlOf(res.variant)) =>
        Rejected(res)

\* C6: unpackAny(m.packAny()) has the fields of m, for both variants, and
\* the envelope's typeUrl is the variant's constant.
C6_PackUnpackReproduces ==
    /\ (wire.kind = "any" /\ wire.by = "packAny") =>
          wire.val.typeUrl = TypeUrlOf(wire.of.variant)
    /\ (res.op = "unpackAny" /\ wire.by = "packAny"
          /\ res.variant = wire.of.variant) =>
          (res.err = "none" /\ obj = wire.of)

\* (C6 restricted to the messages whose fields are all strings.)
PackUnpackReproducesWellTyped ==
    /\ (wire.kind = "any" /\ wire.by = "packAny") =>
          wire.val.typeUrl = TypeUrlOf(wire.of.variant)
    /\ (res.op = "unpackAny" /\ wire.by = "packAny"
          /\ res.variant = wire.of.variant /\ WellTyped(wire.of)) =>
          (res.err = "none" /\ obj = wire.of)

\* The serializer whose output fromX takes back.
InverseOf(op) ==
    CASE op = "fromAmino" -> "toAmino"
      [] op = "fromData"  -> "toData"
      [] op = "fromProto" -> "toProto"
      [] OTHER            -> "no such serializer"

\* C7: fromX(toX(m)) = m field by field, for every message and every shape
\* its variant implements.
C7_RoundTripLaw ==
    (res.op \in {"fromAmino", "fromData", "fromProto"}
       /\ wire.by = InverseOf(res.op) /\ res.variant = wire.of.variant) =>
        (res.err = "none" /\ obj = wire.of)

\* (C7 restricted to the messages whose fields are all strings.)
RoundTripLawWellTyped ==
    (res.op \in {"fromAmino", "fromData", "fromProto"}
       /\ wire.by = InverseOf(res.op) /\ res.variant = wire.of.variant
       /\ WellTyped(wire.of)) =>
        (res.err = "none" /\ obj = wire.of)

\* C8: toData of a MsgStoreCode is exactly '@type' = '/jax.MsgStoreCode'
\* plus the four fields with the message's values, however the message was
\* obtained; fromData reads the four fields and nothing else, so payloads
\* of either generation with the same fields give the same message.
C8_ToDataIsCurrentShape ==
    /\ (res.op = "toData" /\ res.variant = "MsgStoreCode") =>
          /\ res.err = "none"
          /\ wire.kind = "data" /\ wire.of = obj
          /\ DOMAIN wire.val = {"@type"} \cup StoreCodeFields
          /\ wire.val["@type"] = "/jax.MsgStoreCode"
          /\ \A f \in StoreCodeFields : wire.val[f] = obj[f]
    /\ (res.op = "fromData" /\ res.variant = "MsgStoreCode"
          /\ StoreCodeFields \subseteq DOMAIN wire.val) =>
          /\ res.err = "none"
          /\ obj.variant = "MsgStoreCode"
          /\ \A f \in StoreCodeFields : obj[f] = wire.val[f]

C8_Witness ==
    /\ res.op = "toData" /\ res.variant = "MsgStoreCode"
    /\ objVia = "fromData"
    /\ \A f \in StoreCodeFields : obj[f] = <<97>>

\* C9: MsgUpdateClient.fromAmino and toAmino always throw "Amino not
\* supported", return nothing, and leave the message in hand (hence its
\* toData, toProto and packAny) and the wire form as they were.
C9_AminoUnsupported ==
    [][(res'.op \in {"toAmino", "fromAmino"} /\ res'.variant = "MsgUpdateClient") =>
          /\ res'.err = "Error: Amino not supported"
          /\ obj' = obj
          /\ objVia' = objVia
          /\ wire' = wire]_vars

C9_Witness ==
    /\ res.op = "toAmino" /\ res.variant = "MsgUpdateClient"
    /\ res.err = "Error: Amino not supported"
    /\ obj.variant = "MsgUpdateClient"
    /\ obj.clientMessage.present

\* A payload that matches no generation of MsgStoreCode's shape of kind
\* "data" or "amino".
MatchesNoGeneration(w) ==
    IF w.kind = "data"
    THEN \/ ~(StoreCodeFields \subseteq DOMAIN w.val)
         \/ "@type" \notin DOMAIN w.val
         \/ w.val["@type"] # TypeUrlStoreCode
    ELSE \/ "value" \notin DOMAIN w.val
         \/ ~(StoreCodeFields \subseteq DOMAIN w.val.value)
         \/ "type" \notin DOMAIN w.val
         \/ w.val.type # AminoTypeStoreCode

\* C10: MsgStoreCode.fromData and fromAmino reject (SchemaAmbiguityError)
\* a payload that lacks a field (or the value object) or carries another
\* type discriminator, and return no message.
C10_MalformedPayloadRejected ==
    (res.op \in {"fromData", "fromAmino"} /\ res.variant = "MsgStoreCode"
       /\ MatchesNoGeneration(wire)) =>
        Rejected(res)

=============================================================================
